---- MODULE Spec2Model ----
(***************************************************************************)
(* Model of spotify-downloader.py: SpotifyDownloader.process_urls_file,    *)
(* the resolver (parse_spotify_item and the catalog lookups),              *)
(* download_item, _run_spotdl_command, _update_progress and the renderer   *)
(* thread _display_progress, over the shared DownloadProgress record.      *)
(*                                                                         *)
(* Progress values are kept in hundredths of a percent (40.0 is 4000) and  *)
(* a percentage read from the output in tenths, so that                    *)
(* 30.0 + percent * 0.6 is the integer 3000 + 6 * tenths.                  *)
(***************************************************************************)
EXTENDS Integers, Sequences, FiniteSets, TLC

(***************************************************************************)
(* Bounds of the model.                                                    *)
(***************************************************************************)
MaxItems == 2      \* resolved items of one run (Spec)
MaxRaw == 3        \* resolved items handed to the deduplication (SpecDedupe)
MaxLines == 2      \* stdout lines read from one subprocess (Spec)

Min(a, b) == IF a < b THEN a ELSE b
Max(a, b) == IF a > b THEN a ELSE b

RECURSIVE SeqsUpTo(_, _)
SeqsUpTo(S, n) ==
  IF n = 0 THEN {<<>>}
  ELSE LET shorter == SeqsUpTo(S, n - 1)
       IN  shorter \cup {Append(s, e) : s \in {t \in shorter : Len(t) = n - 1}, e \in S}


(***************************************************************************)
(* Text.  Strings are TLA+ strings; the helpers below compute what the     *)
(* Python string operations used by the source compute.                    *)
(***************************************************************************)
UpperCase == "ABCDEFGHIJKLMNOPQRSTUVWXYZ"
LowerCase == "abcdefghijklmnopqrstuvwxyz"
Digits == "0123456789"
WhiteSpace == {" ", "\t", "\n", "\r"}

CharAt(s, i) == SubSeq(s, i, i)

\* sub in s
Contains(s, sub) ==
  \E i \in 1..(Len(s) - Len(sub) + 1) : SubSeq(s, i, i + Len(sub) - 1) = sub

LowerChar(c) ==
  IF \E i \in 1..Len(UpperCase) : CharAt(UpperCase, i) = c
  THEN CharAt(LowerCase, CHOOSE i \in 1..Len(UpperCase) : CharAt(UpperCase, i) = c)
  ELSE c

\* s.lower()
RECURSIVE Lower(_)
Lower(s) == IF s = "" THEN "" ELSE LowerChar(CharAt(s, 1)) \o Lower(SubSeq(s, 2, Len(s)))

\* s.strip()
Strip(s) ==
  LET keep == {i \in 1..Len(s) : CharAt(s, i) \notin WhiteSpace}
  IN  IF keep = {} THEN ""
      ELSE SubSeq(s, CHOOSE i \in keep : \A j \in keep : i <= j,
                     CHOOSE i \in keep : \A j \in keep : i >= j)

\* s[:n]
Prefix(s, n) == SubSeq(s, 1, Min(Len(s), n))

\* s[:n] + "..." if len(s) > n else s
Ellipsize(s, n) == IF Len(s) > n THEN Prefix(s, n) \o "..." ELSE s

\* s.split(":", 1)[-1]
AfterFirstColon(s) ==
  LET at == {i \in 1..Len(s) : CharAt(s, i) = ":"}
  IN  IF at = {} THEN s
      ELSE SubSeq(s, (CHOOSE i \in at : \A j \in at : i <= j) + 1, Len(s))

IsDigit(c) == \E i \in 1..Len(Digits) : CharAt(Digits, i) = c
DigitValue(c) == (CHOOSE i \in 1..Len(Digits) : CharAt(Digits, i) = c) - 1

\* index of the last character of the run of digits that starts at i
RECURSIVE DigitRunEnd(_, _)
DigitRunEnd(s, i) ==
  IF i < Len(s) /\ IsDigit(CharAt(s, i + 1)) THEN DigitRunEnd(s, i + 1) ELSE i

RECURSIVE DecimalValue(_, _, _)
DecimalValue(s, i, j) ==
  IF i > j THEN 0 ELSE DecimalValue(s, i, j - 1) * 10 + DigitValue(CharAt(s, j))

\* re.search(r'(\d+(?:\.\d+)?)%', s) matching at position i: the end of the
\* match, or 0 when the pattern does not match there.
PercentMatchEnd(s, i) ==
  IF ~IsDigit(CharAt(s, i)) THEN 0
  ELSE LET j == DigitRunEnd(s, i)
       IN  IF j < Len(s) /\ CharAt(s, j + 1) = "%" THEN j + 1
           ELSE IF j + 1 < Len(s) /\ CharAt(s, j + 1) = "." /\ IsDigit(CharAt(s, j + 2))
                THEN LET k == DigitRunEnd(s, j + 2)
                     IN  IF k < Len(s) /\ CharAt(s, k + 1) = "%" THEN k + 1 ELSE 0
                ELSE 0

HasPercent(s) == \E i \in 1..Len(s) : PercentMatchEnd(s, i) # 0

\* float(percent_match.group(1)) of the leftmost match, in tenths of a percent
\* (the output lines of the model carry at most one fractional digit).
PercentTenths(s) ==
  LET i == CHOOSE a \in 1..Len(s) :
             PercentMatchEnd(s, a) # 0 /\ \A b \in 1..(a - 1) : PercentMatchEnd(s, b) = 0
      j == DigitRunEnd(s, i)
  IN  DecimalValue(s, i, j) * 10
        + (IF CharAt(s, j + 1) = "." THEN DigitValue(CharAt(s, j + 2)) ELSE 0)

(***************************************************************************)
(* Resolved items: (artist, album_name, item_id, url_type) tuples as the   *)
(* resolver returns them.  An album URL yields url_type 'track', a         *)
(* playlist URL yields 'playlist'.                                         *)
(***************************************************************************)
Artists == {"a"}
Albums == {"x", "y"}
TrackIds == {"t1", "t2"}
UrlTypes == {"track", "playlist"}
Items == Artists \X Albums \X TrackIds \X UrlTypes
RunItems == {<<"a", "x", "t1", "track">>, <<"a", "x", "t1", "playlist">>,
             <<"a", "y", "t2", "track">>}

(***************************************************************************)
(* Text the subprocess writes to stdout, one element per readline().       *)
(***************************************************************************)
OutputLines ==
  { "Searching for song\n",
    "Found: Artist - A title that is much longer than the sixty characters kept\n",
    "Found: ab\n",
    "Downloading 50%\n",
    "Converting\n",
    "Applying metadata\n",
    "Downloaded \"Title\"\n",
    "12.5%\n",
    "150%\n",
    "100 % done\n",
    "Error: network timeout\n",
    "Processing query\n" }

\* str(e) of an exception raised by Popen or by reading its pipes
ExceptionTexts ==
  { "[Errno 2] No such file or directory: 'spotdl'", "codec can't decode" }

\* what was captured when the subprocess exits with a non-zero status
ExitOutputs == { <<>>, <<"Error: network timeout">> }
ExitStderr == { "", "spotdl: download failed\n" }

(***************************************************************************)
(* Program constants.                                                      *)
(***************************************************************************)
ProgressSearching == 1000     \* progress=10.0
ProgressFound == 2000         \* progress=20.0
ProgressDownloading == 4000   \* progress=40.0
ProgressConverting == 7000    \* progress=70.0
ProgressMetadata == 8500      \* progress=85.0
ProgressDone == 10000         \* progress=100.0
PercentCap == 9500            \* min(95.0, ...)
PercentBase == 3000           \* 30.0 + ...
PercentFactor == 6            \* ... percent * 0.6, per tenth of a percent
TrackInfoLen == 60      \* track_info[:60]
MinTrackInfo == 3       \* len(track_info) > 3
ReasonLen == 60         \* error_lines[0][:60], line[:60]
TailLines == 5          \* output_lines[-5:]
ExceptionLen == 40      \* str(e)[:40]

None == "<None>"        \* an argument of _update_progress left at None
NoProgress == -1

StatusStart == "Demarrage..."
StatusSearching == "Recherche..."
StatusFound == "Trouve"
StatusDownloading == "Telechargement..."
StatusConverting == "Conversion..."
StatusMetadata == "Metadonnees..."
StatusDownloaded == "Termine"
StatusErrorSeen == "X Erreur detectee"
StatusSuccess == "Succes"
FailMark == "X "
ExceptionMark == "X Exception: "
UnknownError == "Erreur inconnue"

\* exit statuses process.wait() returns: 0, 1, and -9 for a subprocess killed
\* by a signal
ExitCodes == {0, 1, -9}

\* return_code before process.wait() has returned: no exit status
NoExit == 256

\* a variant: a status that is not negative counts as success
SucceededNotNegative(rc) == rc >= 0

\* if return_code == 0:
Succeeded(rc) == rc = 0

VARIABLES
  all_items,               \* process_urls_file: all_items
  unique_items,            \* process_urls_file: unique_items
  pc,                      \* position of the main path (resolver, job loop, driver)
  idx,                     \* position of the job loop in unique_items
  total_items,             \* DownloadProgress.total_items
  completed_items,         \* DownloadProgress.completed_items
  failed_items,            \* DownloadProgress.failed_items
  current_track,           \* DownloadProgress.current_track
  current_track_progress,  \* DownloadProgress.current_track_progress
  current_track_status,    \* DownloadProgress.current_track_status
  lock,                    \* holder of _progress_lock
  pending,                 \* 'with self._progress_lock' blocks the main path has yet to run
  stop_display,            \* _stop_progress_display
  rpc,                     \* position of the renderer thread
  lines_printed,           \* _display_progress: lines_printed
  proc,                    \* the spotdl subprocess of the current job
  nread,                   \* lines read from the current subprocess
  percent,                 \* _run_spotdl_command: percent (tenths), NoProgress when unset
  present,                 \* whether the current job's output is already in its album folder
  results,                 \* return values of _run_spotdl_command so far
  stdout_pipe,             \* lines written to the stdout pipe and not yet read
  stderr_pipe,             \* chunks written to the stderr pipe and not yet read
  child_todo,              \* the writes the subprocess has yet to make, in order
  output_lines,            \* _run_spotdl_command: output_lines
  stderr_output,           \* _run_spotdl_command: stderr_output
  return_code,             \* _run_spotdl_command: return_code, NoExit before process.wait()
  orphans,                 \* subprocesses still running whose call has returned
  urls,                    \* process_urls_file: urls
  url_pos,                 \* URLs of urls handed to parse_spotify_item so far
  url_items,               \* _get_album_tracks_info / _get_playlist_info: items
  offset,                  \* ... offset
  total_tracks,            \* ... total_tracks
  calls,                   \* remote lookups made for the current URL, in order
  returned,                \* per URL handed over: what was returned and the lookups made
  run                      \* calls of process_urls_file made on this SpotifyDownloader

progress == <<total_items, completed_items, failed_items, current_track,
              current_track_progress, current_track_status>>
mainv == <<all_items, unique_items, pc, idx, pending, proc, nread, percent, present, results>>
renderv == <<rpc, lines_printed>>
pipev == <<stdout_pipe, stderr_pipe, child_todo>>
capturev == <<output_lines, stderr_output>>
procv == <<return_code, orphans>>
resolvev == <<urls, url_pos, url_items, offset, total_tracks, calls, returned>>
vars == <<all_items, unique_items, pc, idx, total_items, completed_items, failed_items,
          current_track, current_track_progress, current_track_status, lock, pending,
          stop_display, rpc, lines_printed, proc, nread, percent, present, results,
          stdout_pipe, stderr_pipe, child_todo, output_lines, stderr_output,
          return_code, orphans, urls, url_pos, url_items, offset, total_tracks, calls,
          returned, run>>

(***************************************************************************)
(* Deduplication loop of process_urls_file (lines 429-437).                *)
(***************************************************************************)
\* a variant: the whole item, url_type included, as the key
TrackKeyWithType(item) == item

\* track_key = (artist, album_name, item_id)

TrackKey(item) == <<item[1], item[2], item[3]>>

\* a variant: the list is edited while it is iterated, so the item after a
\* dropped duplicate is passed over and kept
RECURSIVE DedupeShifting(_, _, _)
DedupeShifting(items, seen_tracks, unique) ==
  IF items = <<>> THEN unique
  ELSE LET track_key == TrackKey(Head(items))
       IN  IF track_key \notin seen_tracks
           THEN DedupeShifting(Tail(items), seen_tracks \cup {track_key},
                               Append(unique, Head(items)))
           ELSE IF Len(items) >= 2
                THEN DedupeShifting(Tail(Tail(items)), seen_tracks,
                                    Append(unique, items[2]))
                ELSE unique

\* the loop of lines 433-437 over the items left, with seen_tracks and
\* unique_items so far
RECURSIVE DedupeLoop(_, _, _)
DedupeLoop(items, seen_tracks, unique) ==
  IF items = <<>> THEN unique
  ELSE LET track_key == TrackKey(Head(items))
       IN  IF track_key \notin seen_tracks
           THEN DedupeLoop(Tail(items), seen_tracks \cup {track_key},
                           Append(unique, Head(items)))
           ELSE DedupeLoop(Tail(items), seen_tracks, unique)

Dedupe(items) == DedupeLoop(items, {}, <<>>)

\* display_name = f"{artist} - {album_name}"
DisplayName(item) == item[1] \o " - " \o item[2]

(***************************************************************************)
(* _update_progress and the counting block of download_item: the blocks    *)
(* the main path runs under _progress_lock.                                *)
(***************************************************************************)
Update(track_name, prog, status) ==
  [op |-> "update", track_name |-> track_name, progress |-> prog, status |-> status,
   success |-> TRUE]

Count(success, display_name) ==
  [op |-> "count", track_name |-> display_name, progress |-> NoProgress, status |-> None,
   success |-> success]

\* a variant: the argument is stored even when it is None
AssignedAlways(field, arg, none) == arg

\* 'if x is not None: field = x'
Assigned(field, arg, none) == IF arg = none THEN field ELSE arg

\* a variant: the job is counted twice
CompletedTwice(n) == n + 2

\* self.progress.completed_items += 1
Completed(n) == n + 1

\* a variant: the name is appended whatever the outcome
FailedAlways(failed, success, display_name) == Append(failed, display_name)

\* if not success: self.progress.failed_items.append(display_name)
Failed(failed, success, display_name) ==
  IF success THEN failed ELSE Append(failed, display_name)

\* with self._progress_lock:  (blocks while the renderer holds the lock)
AcquireLock ==
  /\ pending # <<>>
  /\ lock = "free"
  /\ lock' = "main"
  /\ UNCHANGED <<run, pipev, capturev, resolvev, procv, progress, mainv, renderv, stop_display>>

\* the body of the block, and the release of the lock at its end
RunLocked ==
  /\ pending # <<>>
  /\ lock = "main"
  /\ LET b == Head(pending)
     IN  IF b.op = "update"
         THEN /\ current_track' = Assigned(current_track, b.track_name, None)
              /\ current_track_progress' =
                   Assigned(current_track_progress, b.progress, NoProgress)
              /\ current_track_status' = Assigned(current_track_status, b.status, None)
              /\ UNCHANGED <<completed_items, failed_items>>
         ELSE /\ completed_items' = Completed(completed_items)
              /\ failed_items' = Failed(failed_items, b.success, b.track_name)
              /\ UNCHANGED <<current_track, current_track_progress, current_track_status>>
  /\ pending' = Tail(pending)
  /\ lock' = "free"
  /\ UNCHANGED <<run, pipev, capturev, resolvev, procv,
                 all_items, unique_items, pc, idx, total_items, proc, nread, percent,
                 present, results, renderv, stop_display>>

(***************************************************************************)
(* process_urls_file, after the URLs are resolved (lines 427-469).         *)
(***************************************************************************)
DedupeItems ==
  /\ pc = "dedupe"
  /\ unique_items' = Dedupe(all_items)
  /\ pc' = "init"
  /\ UNCHANGED <<run, pipev, capturev, resolvev, procv,
                 all_items, idx, progress, lock, pending, stop_display, renderv, proc,
                 nread, percent, present, results>>

\* lines 442-443, outside the lock
InitProgress ==
  /\ pc = "init"
  /\ total_items' = Len(unique_items)
  /\ completed_items' = 0
  /\ pc' = "start"
  /\ UNCHANGED <<run, pipev, capturev, resolvev, procv,
                 all_items, unique_items, idx, failed_items, current_track,
                 current_track_progress, current_track_status, lock, pending,
                 stop_display, renderv, proc, nread, percent, present, results>>

\* _start_progress_display
StartDisplay ==
  /\ pc = "start"
  /\ stop_display' = FALSE
  /\ rpc' = "check"
  /\ pc' = "loop"
  /\ UNCHANGED <<run, pipev, capturev, resolvev, procv,
                 all_items, unique_items, idx, progress, lock, pending, lines_printed,
                 proc, nread, percent, present, results>>

\* for artist, album_name, item_id, url_type in unique_items: (next job)
NextJob ==
  /\ pc = "loop"
  /\ pending = <<>>
  /\ idx < Len(unique_items)
  /\ idx' = idx + 1
  /\ present' \in BOOLEAN
  /\ pc' = "mkdir"
  /\ UNCHANGED <<run, pipev, capturev, resolvev, procv,
                 all_items, unique_items, progress, lock, pending, stop_display, renderv,
                 proc, nread, percent, results>>

\* the loop is over: the finally clause runs _stop_progress_display_func
LoopEnd ==
  /\ pc = "loop"
  /\ pending = <<>>
  /\ idx = Len(unique_items)
  /\ stop_display' = TRUE
  /\ pc' = "summary"
  /\ UNCHANGED <<run, pipev, capturev, resolvev, procv,
                 all_items, unique_items, idx, progress, lock, pending, renderv, proc,
                 nread, percent, present, results>>

\* lines 459-465: the final summary, read outside the lock
Summary ==
  /\ pc = "summary"
  /\ pc' = "done"
  /\ UNCHANGED <<run, pipev, capturev, resolvev, procv,
                 all_items, unique_items, idx, progress, lock, pending, stop_display,
                 renderv, proc, nread, percent, present, results>>

\* an exception left download_item: finally runs _stop_progress_display_func
FinallyRaised ==
  /\ pc = "raised"
  /\ stop_display' = TRUE
  /\ pc' = "except"
  /\ UNCHANGED <<run, pipev, capturev, resolvev, procv,
                 all_items, unique_items, idx, progress, lock, pending, renderv, proc,
                 nread, percent, present, results>>

\* except Exception (lines 467-469): _stop_progress_display_func again, error printed
ExceptRun ==
  /\ pc = "except"
  /\ stop_display' = TRUE
  /\ pc' = "done"
  /\ UNCHANGED <<run, pipev, capturev, resolvev, procv,
                 all_items, unique_items, idx, progress, lock, pending, renderv, proc,
                 nread, percent, present, results>>

(***************************************************************************)
(* download_item (lines 366-401).                                          *)
(***************************************************************************)
\* both mkdir(exist_ok=True) succeed; _run_spotdl_command starts (lines 271-275)
MakeFolders ==
  /\ pc = "mkdir"
  /\ pending' = <<Update(DisplayName(unique_items[idx]), 0, StatusStart)>>
  /\ pc' = "popen"
  /\ UNCHANGED <<run, pipev, capturev, resolvev, procv,
                 all_items, unique_items, idx, progress, lock, stop_display, renderv,
                 proc, nread, percent, present, results>>

\* artist_folder.mkdir or album_folder.mkdir raises (OSError): nothing catches
\* it in download_item
MakeFoldersRaises ==
  /\ pc = "mkdir"
  /\ pc' = "raised"
  /\ present' = FALSE
  /\ UNCHANGED <<run, pipev, capturev, resolvev, procv,
                 all_items, unique_items, idx, progress, lock, pending, stop_display,
                 renderv, proc, nread, percent, results>>

\* _run_spotdl_command returned: the counting block (lines 393-396), then the
\* return to the job loop
CountJob(success) ==
  /\ pending' = <<Count(success, DisplayName(unique_items[idx]))>>
  /\ results' = Append(results, success)
  /\ proc' = "none"
  /\ nread' = 0
  /\ present' = FALSE
  /\ return_code' = NoExit
  /\ orphans' = orphans + (IF proc = "running" THEN 1 ELSE 0)
  /\ pc' = "loop"
  /\ UNCHANGED <<run, pipev, capturev, resolvev,
                 all_items, unique_items, idx, progress, lock, stop_display, renderv,
                 percent>>

ReturnTrue ==
  /\ pc = "return_true"
  /\ pending = <<>>
  /\ CountJob(TRUE)

ReturnFalse ==
  /\ pc = "return_false"
  /\ pending = <<>>
  /\ CountJob(FALSE)

(***************************************************************************)
(* _run_spotdl_command (lines 267-364).                                    *)
(***************************************************************************)
\* the if/elif chain of lines 302-331, on output_clean
LineBranch(s) ==
  IF Contains(s, "Searching") \/ Contains(Lower(s), "searching") THEN "searching"
  ELSE IF Contains(s, "Found") \/ Contains(Lower(s), "found") THEN "found"
  ELSE IF Contains(s, "Downloading") \/ Contains(Lower(s), "downloading") THEN "downloading"
  ELSE IF Contains(s, "Converting") \/ Contains(Lower(s), "converting") THEN "converting"
  ELSE IF Contains(s, "Applying") \/ Contains(Lower(s), "metadata") THEN "metadata"
  ELSE IF Contains(s, "Downloaded") \/ Contains(Lower(s), "downloaded") THEN "downloaded"
  ELSE IF Contains(s, "%") THEN "percent"
  ELSE IF Contains(Lower(s), "error") \/ Contains(Lower(s), "failed") THEN "error"
  ELSE "none"

\* lines 307-311: the track name taken from a 'found' line
FoundTrack(s) ==
  IF Contains(s, ":")
  THEN LET track_info == Strip(AfterFirstColon(s))
       IN  IF track_info # "" /\ Len(track_info) > MinTrackInfo
           THEN <<Update(Ellipsize(track_info, TrackInfoLen), NoProgress, None)>>
           ELSE <<>>
  ELSE <<>>

\* the _update_progress calls a line leads to (the percent branch apart)
LineUpdates(s) ==
  LET branch == LineBranch(s)
  IN  CASE branch = "searching" -> <<Update(None, ProgressSearching, StatusSearching)>>
        [] branch = "found" -> <<Update(None, ProgressFound, StatusFound)>> \o FoundTrack(s)
        [] branch = "downloading" -> <<Update(None, ProgressDownloading, StatusDownloading)>>
        [] branch = "converting" -> <<Update(None, ProgressConverting, StatusConverting)>>
        [] branch = "metadata" -> <<Update(None, ProgressMetadata, StatusMetadata)>>
        [] branch = "downloaded" -> <<Update(None, ProgressDone, StatusDownloaded)>>
        [] branch = "error" -> <<Update(None, 0, StatusErrorSeen)>>
        [] OTHER -> <<>>

Clean == [l \in OutputLines |-> Strip(l)]
BranchOf == [l \in OutputLines |-> LineBranch(Clean[l])]
UpdatesOf == [l \in OutputLines |-> LineUpdates(Clean[l])]
PercentOf == [l \in OutputLines |->
                IF BranchOf[l] = "percent" /\ HasPercent(Clean[l])
                THEN PercentTenths(Clean[l]) ELSE NoProgress]

\* a variant: the value is not capped
AdjustedProgressUncapped(cur, tenths) == Max(cur, PercentBase + tenths * PercentFactor)

\* line 327: min(95.0, max(current_track_progress, 30.0 + percent * 0.6))
AdjustedProgress(cur, tenths) ==
  Min(PercentCap, Max(cur, PercentBase + tenths * PercentFactor))

\* 'error' in line.lower() or 'failed' in line.lower()
HasErrorToken(line) == Contains(Lower(line), "error") \/ Contains(Lower(line), "failed")

\* a variant: the whole output is searched
LastLinesWhole(lines, n) == lines

\* output_lines[-5:]
LastLines(lines, n) == SubSeq(lines, Max(1, Len(lines) - n + 1), Len(lines))

\* lines 352-355: for line in reversed(tail): first line bearing an error token
RECURSIVE SearchReversed(_)
SearchReversed(tail) ==
  IF tail = <<>> THEN UnknownError
  ELSE IF HasErrorToken(tail[Len(tail)]) THEN Prefix(tail[Len(tail)], ReasonLen)
  ELSE SearchReversed(SubSeq(tail, 1, Len(tail) - 1))

\* lines 335-355: error_msg from the captured stdout lines and the stderr text
FailureReason(captured, stderr_text) ==
  LET error_lines == IF stderr_text # "" THEN <<Strip(stderr_text)>> ELSE <<>>
  IN  IF error_lines # <<>> THEN Prefix(error_lines[1], ReasonLen)
      ELSE IF captured # <<>> THEN SearchReversed(LastLines(captured, TailLines))
      ELSE UnknownError

\* subprocess.Popen succeeds
Spawn ==
  /\ pc = "popen"
  /\ pending = <<>>
  /\ proc' = "running"
  /\ nread' = 0
  /\ pc' = "read"
  /\ UNCHANGED <<run, pipev, capturev, resolvev, procv,
                 all_items, unique_items, idx, progress, lock, pending, stop_display,
                 renderv, percent, present, results>>

\* an exception in the try block (lines 361-364)
Raised(e) ==
  /\ pending' = <<Update(None, 0, ExceptionMark \o Prefix(e, ExceptionLen))>>
  /\ pc' = "return_false"
  /\ UNCHANGED <<run, pipev, capturev, resolvev, procv,
                 all_items, unique_items, idx, progress, lock, stop_display, renderv,
                 proc, nread, percent, present, results>>

\* subprocess.Popen raises (spotdl is not installed, ...)
SpawnRaises ==
  /\ pc = "popen"
  /\ pending = <<>>
  /\ \E e \in ExceptionTexts : Raised(e)

\* readline() returns a line
ReadLine ==
  /\ pc = "read"
  /\ pending = <<>>
  /\ proc = "running"
  /\ nread < MaxLines
  /\ \E l \in OutputLines :
       /\ pending' = UpdatesOf[l]
       /\ percent' = PercentOf[l]
       /\ pc' = IF PercentOf[l] # NoProgress THEN "percent" ELSE "read"
  /\ nread' = nread + 1
  /\ UNCHANGED <<run, pipev, capturev, resolvev, procv,
                 all_items, unique_items, idx, progress, lock, stop_display, renderv,
                 proc, present, results>>

\* lines 327-328: current_track_progress read outside the lock
PercentRead ==
  /\ pc = "percent"
  /\ pending' = <<Update(None, AdjustedProgress(current_track_progress, percent), None)>>
  /\ percent' = NoProgress
  /\ pc' = "read"
  /\ UNCHANGED <<run, pipev, capturev, resolvev, procv,
                 all_items, unique_items, idx, progress, lock, stop_display, renderv,
                 proc, nread, present, results>>

\* reading the pipes raises
ReadRaises ==
  /\ pc = "read"
  /\ pending = <<>>
  /\ proc = "running"
  /\ \E e \in ExceptionTexts : Raised(e)

\* readline() returns '' and the subprocess has exited; process.wait() gives a
\* status for which 'return_code == 0' holds (lines 340-345)
ExitZero ==
  /\ pc = "read"
  /\ pending = <<>>
  /\ proc = "running"
  /\ proc' = "exited"
  /\ \E rc \in ExitCodes : Succeeded(rc) /\ return_code' = rc
  /\ pending' = <<Update(None, ProgressDone, StatusSuccess)>>
  /\ pc' = "return_true"
  /\ UNCHANGED <<run, pipev, capturev, resolvev, orphans,
                 all_items, unique_items, idx, progress, lock, stop_display, renderv,
                 nread, percent, present, results>>

\* ... a status for which it does not hold (lines 346-359)
ExitNonZero ==
  /\ pc = "read"
  /\ pending = <<>>
  /\ proc = "running"
  /\ proc' = "exited"
  /\ \E rc \in ExitCodes : ~Succeeded(rc) /\ return_code' = rc
  /\ \E captured \in ExitOutputs, stderr_text \in ExitStderr :
       pending' = <<Update(None, 0, FailMark \o FailureReason(captured, stderr_text))>>
  /\ pc' = "return_false"
  /\ UNCHANGED <<run, pipev, capturev, resolvev, orphans,
                 all_items, unique_items, idx, progress, lock, stop_display, renderv,
                 nread, percent, present, results>>

(***************************************************************************)
(* _display_progress, the renderer thread (lines 73-106).                  *)
(***************************************************************************)
\* while not self._stop_progress_display:
RenderCheck ==
  /\ rpc = "check"
  /\ rpc' = IF stop_display THEN "exited" ELSE "acquire"
  /\ UNCHANGED <<run, pipev, capturev, resolvev, procv,
                 progress, mainv, lock, stop_display, lines_printed>>

\* with self._progress_lock:
RenderAcquire ==
  /\ rpc = "acquire"
  /\ lock = "free"
  /\ lock' = "renderer"
  /\ rpc' = "paint"
  /\ UNCHANGED <<run, pipev, capturev, resolvev, procv, progress, mainv, stop_display,
                 lines_printed>>

\* lines 80-104: erase, repaint, release; then time.sleep(0.3)
RenderPaint ==
  /\ rpc = "paint"
  /\ lines_printed' = 1 + (IF current_track # "" THEN 1 ELSE 0)
                        + (IF current_track_status # "" THEN 1 ELSE 0)
  /\ lock' = "free"
  /\ rpc' = "check"
  /\ UNCHANGED <<run, pipev, capturev, resolvev, procv, progress, mainv, stop_display>>

\* a subprocess that no call waits for ends on its own
OrphanExit ==
  /\ orphans > 0
  /\ orphans' = orphans - 1
  /\ UNCHANGED <<run, pipev, capturev, resolvev, return_code, progress, mainv, renderv, lock,
                 stop_display>>

(***************************************************************************)
(* One run of process_urls_file on a new SpotifyDownloader, as main() does *)
(* it, from the resolved items on.                                         *)
(***************************************************************************)
InitRecord ==
  /\ unique_items = <<>>
  /\ idx = 0
  /\ total_items = 0
  /\ completed_items = 0
  /\ failed_items = <<>>
  /\ current_track = ""
  /\ current_track_progress = 0
  /\ current_track_status = ""
  /\ lock = "free"
  /\ pending = <<>>
  /\ stop_display = FALSE
  /\ rpc = "off"
  /\ lines_printed = 0
  /\ nread = 0
  /\ percent = NoProgress
  /\ present = FALSE
  /\ results = <<>>
  /\ stdout_pipe = 0
  /\ stderr_pipe = 0
  /\ orphans = 0

\* the resolver has returned: its locals are gone
Resolved ==
  /\ urls = <<>>
  /\ url_pos = 0
  /\ url_items = <<>>
  /\ offset = 0
  /\ total_tracks = 0
  /\ calls = <<>>
  /\ returned = <<>>

Init ==
  /\ all_items \in SeqsUpTo(RunItems, MaxItems)
  /\ InitRecord
  /\ pc = "dedupe"
  /\ proc = "none"
  /\ child_todo = <<>>
  /\ output_lines = <<>>
  /\ stderr_output = ""
  /\ return_code = NoExit
  /\ run = 1
  /\ Resolved

Next ==
  \/ DedupeItems
  \/ InitProgress
  \/ StartDisplay
  \/ NextJob
  \/ LoopEnd
  \/ Summary
  \/ FinallyRaised
  \/ ExceptRun
  \/ MakeFolders
  \/ MakeFoldersRaises
  \/ ReturnTrue
  \/ ReturnFalse
  \/ AcquireLock
  \/ RunLocked
  \/ Spawn
  \/ SpawnRaises
  \/ ReadLine
  \/ PercentRead
  \/ ReadRaises
  \/ ExitZero
  \/ ExitNonZero
  \/ RenderCheck
  \/ RenderAcquire
  \/ RenderPaint
  \/ OrphanExit

Spec == Init /\ [][Next]_vars

(***************************************************************************)
(* The deduplication step alone, on every list of resolved items.          *)
(***************************************************************************)
InitDedupe ==
  /\ all_items \in SeqsUpTo(Items, MaxRaw)
  /\ InitRecord
  /\ pc = "dedupe"
  /\ proc = "none"
  /\ child_todo = <<>>
  /\ output_lines = <<>>
  /\ stderr_output = ""
  /\ return_code = NoExit
  /\ run = 1
  /\ Resolved

NextDedupe == DedupeItems

SpecDedupe == InitDedupe /\ [][NextDedupe]_vars

(***************************************************************************)
(* The pipes of _run_spotdl_command (lines 278-340): stdout and stderr are *)
(* two pipes of bounded capacity; the driver reads stdout to its end, and  *)
(* only then stderr.  The subprocess makes its writes in order, blocks on  *)
(* a full pipe, and exits after the last one.                              *)
(***************************************************************************)
MaxWrites == 5       \* writes of one subprocess (SpecPipe)
PipeCapacity == 2    \* writes a pipe holds before the writer blocks

restv == <<all_items, unique_items, idx, progress, lock, pending, stop_display, renderv,
           nread, percent, present, results, capturev, resolvev, procv, run>>

ChildWriteStdout ==
  /\ proc = "running"
  /\ child_todo # <<>>
  /\ Head(child_todo) = "stdout"
  /\ stdout_pipe < PipeCapacity
  /\ stdout_pipe' = stdout_pipe + 1
  /\ child_todo' = Tail(child_todo)
  /\ UNCHANGED <<restv, pc, proc, stderr_pipe>>

ChildWriteStderr ==
  /\ proc = "running"
  /\ child_todo # <<>>
  /\ Head(child_todo) = "stderr"
  /\ stderr_pipe < PipeCapacity
  /\ stderr_pipe' = stderr_pipe + 1
  /\ child_todo' = Tail(child_todo)
  /\ UNCHANGED <<restv, pc, proc, stdout_pipe>>

ChildExit ==
  /\ proc = "running"
  /\ child_todo = <<>>
  /\ proc' = "exited"
  /\ UNCHANGED <<restv, pc, pipev>>

\* line 293: process.stdout.readline() returns a line
PipeReadLine ==
  /\ pc = "read"
  /\ stdout_pipe > 0
  /\ stdout_pipe' = stdout_pipe - 1
  /\ UNCHANGED <<restv, pc, proc, stderr_pipe, child_todo>>

\* lines 293-295: readline() returns '' at end of file and poll() is not None
PipeEndOfOutput ==
  /\ pc = "read"
  /\ stdout_pipe = 0
  /\ proc = "exited"
  /\ pc' = "stderr"
  /\ UNCHANGED <<restv, proc, pipev>>

\* line 335: process.stderr.read() takes what the pipe holds, up to end of file
PipeReadStderr ==
  /\ pc = "stderr"
  /\ stderr_pipe > 0
  /\ stderr_pipe' = 0
  /\ UNCHANGED <<restv, pc, proc, stdout_pipe, child_todo>>

\* line 335 returns at end of file; line 340: process.wait()
PipeWait ==
  /\ pc = "stderr"
  /\ stderr_pipe = 0
  /\ proc = "exited"
  /\ pc' = "waited"
  /\ UNCHANGED <<restv, proc, pipev>>

InitPipe ==
  /\ all_items = <<>>
  /\ InitRecord
  /\ pc = "read"
  /\ proc = "running"
  /\ child_todo \in SeqsUpTo({"stdout", "stderr"}, MaxWrites)
  /\ output_lines = <<>>
  /\ stderr_output = ""
  /\ return_code = NoExit
  /\ run = 1
  /\ Resolved

NextPipe ==
  \/ ChildWriteStdout
  \/ ChildWriteStderr
  \/ ChildExit
  \/ PipeReadLine
  \/ PipeEndOfOutput
  \/ PipeReadStderr
  \/ PipeWait

SpecPipe == InitPipe /\ [][NextPipe]_vars

(***************************************************************************)
(* The failure reason of _run_spotdl_command (lines 334-359), on every     *)
(* captured output: the subprocess has exited with a non-zero status.      *)
(***************************************************************************)
MaxOutput == 6       \* captured stdout lines (SpecReason)

CapturedLines ==
  { "Processing query",
    "Error: network timeout",
    "Download failed: the audio provider gave no result for this track at all" }

CapturedStderr ==
  { "", "\n", "WARNING: rate limited, retrying\n", "spotdl: error: no such track\n" }

ExitNonZeroCaptured ==
  /\ pc = "read"
  /\ proc = "exited"
  /\ pending' = <<Update(None, 0, FailMark \o FailureReason(output_lines, stderr_output))>>
  /\ pc' = "return_false"
  /\ UNCHANGED <<run, pipev, capturev, resolvev, procv, all_items, unique_items, idx,
                 progress, lock,
                 stop_display, renderv, proc, nread, percent, present, results>>

InitReason ==
  /\ all_items = <<>>
  /\ InitRecord
  /\ pc = "read"
  /\ proc = "exited"
  /\ child_todo = <<>>
  /\ output_lines \in SeqsUpTo(CapturedLines, MaxOutput)
  /\ stderr_output \in CapturedStderr
  /\ return_code = 1
  /\ run = 1
  /\ Resolved

NextReason ==
  \/ ExitNonZeroCaptured
  \/ AcquireLock
  \/ RunLocked

SpecReason == InitReason /\ [][NextReason]_vars

(***************************************************************************)
(* The resolver: _extract_spotify_info, parse_spotify_item,                *)
(* _get_album_tracks_info, _get_playlist_info and the loop of              *)
(* process_urls_file that hands each URL to them (lines 131-265, 416-427). *)
(* The remote catalog is a fixed table; a lookup either answers from the   *)
(* table or fails (network error, not found, authentication).              *)
(***************************************************************************)
MaxUrls == 2         \* URLs of one input file (SpecResolve)

AlbumPageLimit == 50       \* limit = 50
PlaylistPageLimit == 100   \* limit = 100

\* index of the last character of the run, starting at i, of characters that
\* are not in stop (i - 1 when the run is empty)
RECURSIVE RunEnd(_, _, _)
RunEnd(s, i, stop) ==
  IF i <= Len(s) /\ CharAt(s, i) \notin stop THEN RunEnd(s, i + 1, stop) ELSE i - 1

\* re.search(r'spotify\.com/([^/]+)/([^/?]+)', url) matching at position i
PatternMatchAt(url, i) ==
  /\ i + 11 <= Len(url)
  /\ SubSeq(url, i, i + 11) = "spotify.com/"
  /\ LET j == RunEnd(url, i + 12, {"/"})
     IN  /\ j >= i + 12
         /\ j < Len(url)
         /\ CharAt(url, j + 1) = "/"
         /\ RunEnd(url, j + 2, {"/", "?"}) >= j + 2

InvalidUrl == [ok |-> FALSE, url_type |-> "", item_id |-> ""]

\* _extract_spotify_info: (url_type, item_id), or InvalidUrl where it raises
\* ValueError
ExtractInfo(url) ==
  IF ~Contains(url, "spotify.com") THEN InvalidUrl
  ELSE LET at == {i \in 1..Len(url) : PatternMatchAt(url, i)}
       IN  IF at = {} THEN InvalidUrl
           ELSE LET i == CHOOSE a \in at : \A b \in at : a <= b
                    j == RunEnd(url, i + 12, {"/"})
                    k == RunEnd(url, j + 2, {"/", "?"})
                    url_type == SubSeq(url, i + 12, j)
                IN  IF url_type \notin {"album", "playlist"} THEN InvalidUrl
                    ELSE [ok |-> TRUE, url_type |-> url_type,
                          item_id |-> SubSeq(url, j + 2, k)]

\* re.sub(r'[<>:"/\\|?*]', '_', c) for one character
SanitizeChar(c) ==
  IF c \in {"<", ">", ":", "\"", "/", "\\", "|", "?", "*"} THEN "_" ELSE c

RECURSIVE ReplaceInvalid(_)
ReplaceInvalid(s) ==
  IF s = "" THEN "" ELSE SanitizeChar(CharAt(s, 1)) \o ReplaceInvalid(SubSeq(s, 2, Len(s)))

\* _sanitize_filename
Sanitize(filename) == Strip(ReplaceInvalid(filename))

\* the lines of the input file, stripped and not empty
Urls ==
  { "https://open.spotify.com/album/A1",
    "https://open.spotify.com/album/A2",
    "https://open.spotify.com/album/A3?si=abc",
    "https://open.spotify.com/album/A4",
    "https://open.spotify.com/album/A5",
    "https://open.spotify.com/album/gone",
    "https://open.spotify.com/playlist/P1",
    "https://open.spotify.com/playlist/P2",
    "https://example.org/album/A1",
    "https://open.spotify.com/album",
    "https://open.spotify.com/track/T1",
    "https://open.spotify.com/intl-fr/album/A1",
    "https://notspotify.com/album/A1" }

InfoOf == [u \in Urls |-> ExtractInfo(u)]

\* the catalog: what sp.album(album_id) answers, with the track listing that
\* sp.album_tracks pages through (None: a track without an id)
AlbumCatalog ==
  [ A1 |-> [artist |-> "AC/DC", name |-> "Back in Black",
            tracks |-> <<"A1-1", "A1-2", "A1-3">>],
    A2 |-> [artist |-> "a", name |-> " Who? ", tracks |-> <<>>],
    A3 |-> [artist |-> "a", name |-> "x",
            tracks |-> [i \in 1..101 |-> "A3-" \o ToString(i)]],
    A4 |-> [artist |-> "a", name |-> "y",
            tracks |-> [i \in 1..50 |-> "A4-" \o ToString(i)]],
    A5 |-> [artist |-> "a", name |-> "z", tracks |-> <<"A5-1", None>>] ]

NullTrack == [present |-> FALSE, id |-> None, artists |-> <<>>, album |-> ""]
Track(id, artists, album) ==
  [present |-> TRUE, id |-> id, artists |-> artists, album |-> album]

\* what sp.playlist(playlist_id) answers, with the entries ('track' of each
\* item) that sp.playlist_tracks pages through
PlaylistCatalog ==
  [ P1 |-> [name |-> "Mix",
            tracks |-> <<Track("A1-1", <<"AC/DC">>, "Back in Black"), NullTrack>>],
    P2 |-> [name |-> "Long mix",
            tracks |-> [i \in 1..101 |->
                          IF i = 1 THEN NullTrack
                          ELSE IF i = 100 THEN Track(None, <<"a">>, "x")
                          ELSE IF i = 101 THEN Track("P2-101", <<>>, "x")
                          ELSE Track("P2-" \o ToString(i), <<"a", "b">>, "x")]] ]

\* tracks_batch['items'] for a listing, an offset and a limit
Page(listing, from, limit) ==
  SubSeq(listing, from + 1, Min(from + limit, Len(listing)))

\* a variant: the next page starts one entry too far
NextOffsetSkipping(from, limit) == from + limit + 1

\* offset += limit
NextOffset(from, limit) == from + limit

\* truth value of a str that may be None
Truthy(x) == x # None /\ x # ""

\* if track.get('id'):
KeepAlbumTrack(track_id) == Truthy(track_id)

\* lines 232-239: the jobs of one page of an album
RECURSIVE AlbumJobs(_, _, _)
AlbumJobs(batch, artist, album_name) ==
  IF batch = <<>> THEN <<>>
  ELSE (IF KeepAlbumTrack(Head(batch))
        THEN <<<<Sanitize(artist), Sanitize(album_name), Head(batch), "track">>>>
        ELSE <<>>) \o AlbumJobs(Tail(batch), artist, album_name)

\* a variant: an entry is kept for its id alone
KeepEntryWithId(track) == track.present /\ Truthy(track.id)

\* if track and track.get('id') and track.get('artists'):
KeepEntry(track) == track.present /\ Truthy(track.id) /\ track.artists # <<>>

\* track['artists'][0]['name'] raises IndexError on an entry without artists
EntryRaises(track) == KeepEntry(track) /\ track.artists = <<>>

\* lines 190-196: the jobs of one page of a playlist
RECURSIVE PlaylistJobs(_)
PlaylistJobs(batch) ==
  IF batch = <<>> THEN <<>>
  ELSE (IF KeepEntry(Head(batch))
        THEN <<<<Sanitize(Head(batch).artists[1]), Sanitize(Head(batch).album),
                 Head(batch).id, "playlist">>>>
        ELSE <<>>) \o PlaylistJobs(Tail(batch))

Call(op, id, from, ok) == [op |-> op, id |-> id, offset |-> from, ok |-> ok]

\* a variant: what was fetched before the failure is returned
OnLookupFailureKeep(fetched) == fetched

\* except Exception: ... return []
OnLookupFailure(fetched) == <<>>

CurrentId == InfoOf[urls[url_pos]].item_id

\* parse_spotify_item returns result: all_items.extend(items), next URL
Return(result, made) ==
  /\ all_items' = all_items \o result
  /\ returned' = Append(returned, [url_items |-> result, calls |-> made])
  /\ url_items' = <<>>
  /\ calls' = <<>>
  /\ offset' = 0
  /\ total_tracks' = 0
  /\ pc' = "resolve"

otherv == <<unique_items, idx, progress, lock, pending, stop_display, renderv, proc, nread,
            percent, present, results, pipev, capturev, procv, run>>

\* for url in urls: parse_spotify_item(url) up to the choice of the lookup
ParseUrl ==
  /\ pc = "resolve"
  /\ url_pos < Len(urls)
  /\ url_pos' = url_pos + 1
  /\ LET info == InfoOf[urls[url_pos + 1]]
     IN  IF ~info.ok
         THEN Return(<<>>, <<>>)
         ELSE /\ pc' = IF info.url_type = "album" THEN "album_meta" ELSE "playlist_meta"
              /\ UNCHANGED <<all_items, url_items, offset, total_tracks, calls, returned>>
  /\ UNCHANGED <<otherv, urls>>

\* the loop over urls is over (line 427)
ResolveDone ==
  /\ pc = "resolve"
  /\ url_pos = Len(urls)
  /\ pc' = "dedupe"
  /\ UNCHANGED <<otherv, resolvev, all_items>>

\* a remote lookup is due
LookupDue ==
  \/ pc \in {"album_meta", "playlist_meta"}
  \/ pc \in {"album_page", "playlist_page"} /\ offset < total_tracks

LookupOp ==
  CASE pc = "album_meta" -> "album"
    [] pc = "album_page" -> "album_tracks"
    [] pc = "playlist_meta" -> "playlist"
    [] pc = "playlist_page" -> "playlist_tracks"

\* the lookup raises: the except clause of lines 206-208 or 249-251
LookupFails ==
  /\ LookupDue
  /\ Return(OnLookupFailure(url_items),
            Append(calls, Call(LookupOp, CurrentId, offset, FALSE)))
  /\ UNCHANGED <<otherv, urls, url_pos>>

\* album = self.sp.album(album_id) (lines 213-222)
AlbumMeta ==
  /\ pc = "album_meta"
  /\ CurrentId \in DOMAIN AlbumCatalog
  /\ calls' = Append(calls, Call("album", CurrentId, 0, TRUE))
  /\ total_tracks' = Len(AlbumCatalog[CurrentId].tracks)
  /\ url_items' = <<>>
  /\ offset' = 0
  /\ pc' = "album_page"
  /\ UNCHANGED <<otherv, urls, url_pos, all_items, returned>>

\* one turn of 'while offset < total_tracks' (lines 224-244)
AlbumPage ==
  /\ pc = "album_page"
  /\ offset < total_tracks
  /\ LET album == AlbumCatalog[CurrentId]
         tracks_batch == Page(album.tracks, offset, AlbumPageLimit)
     IN  url_items' = url_items \o AlbumJobs(tracks_batch, album.artist, album.name)
  /\ calls' = Append(calls, Call("album_tracks", CurrentId, offset, TRUE))
  /\ offset' = NextOffset(offset, AlbumPageLimit)
  /\ UNCHANGED <<otherv, urls, url_pos, all_items, returned, total_tracks, pc>>

\* the loop is over: return items (line 247)
AlbumReturn ==
  /\ pc = "album_page"
  /\ offset >= total_tracks
  /\ Return(url_items, calls)
  /\ UNCHANGED <<otherv, urls, url_pos>>

\* playlist = self.sp.playlist(playlist_id) (lines 169-177)
PlaylistMeta ==
  /\ pc = "playlist_meta"
  /\ CurrentId \in DOMAIN PlaylistCatalog
  /\ calls' = Append(calls, Call("playlist", CurrentId, 0, TRUE))
  /\ total_tracks' = Len(PlaylistCatalog[CurrentId].tracks)
  /\ url_items' = <<>>
  /\ offset' = 0
  /\ pc' = "playlist_page"
  /\ UNCHANGED <<otherv, urls, url_pos, all_items, returned>>

\* one turn of 'while offset < total_tracks' (lines 179-201)
PlaylistPage ==
  /\ pc = "playlist_page"
  /\ offset < total_tracks
  /\ LET tracks_batch == Page(PlaylistCatalog[CurrentId].tracks, offset, PlaylistPageLimit)
         made == Append(calls, Call("playlist_tracks", CurrentId, offset, TRUE))
     IN  IF \E i \in DOMAIN tracks_batch : EntryRaises(tracks_batch[i])
         THEN Return(OnLookupFailure(url_items), made)
         ELSE /\ url_items' = url_items \o PlaylistJobs(tracks_batch)
              /\ calls' = made
              /\ offset' = NextOffset(offset, PlaylistPageLimit)
              /\ UNCHANGED <<all_items, returned, total_tracks, pc>>
  /\ UNCHANGED <<otherv, urls, url_pos>>

\* the loop is over: return items (line 204)
PlaylistReturn ==
  /\ pc = "playlist_page"
  /\ offset >= total_tracks
  /\ Return(url_items, calls)
  /\ UNCHANGED <<otherv, urls, url_pos>>

InitResolve ==
  /\ urls \in SeqsUpTo(Urls, MaxUrls)
  /\ url_pos = 0
  /\ url_items = <<>>
  /\ offset = 0
  /\ total_tracks = 0
  /\ calls = <<>>
  /\ returned = <<>>
  /\ all_items = <<>>
  /\ InitRecord
  /\ pc = "resolve"
  /\ proc = "none"
  /\ child_todo = <<>>
  /\ output_lines = <<>>
  /\ stderr_output = ""
  /\ return_code = NoExit
  /\ run = 1

NextResolve ==
  \/ ParseUrl
  \/ ResolveDone
  \/ LookupFails
  \/ AlbumMeta
  \/ AlbumPage
  \/ AlbumReturn
  \/ PlaylistMeta
  \/ PlaylistPage
  \/ PlaylistReturn

SpecResolve == InitResolve /\ [][NextResolve]_vars

(***************************************************************************)
(* process_urls_file called again on the same SpotifyDownloader: the       *)
(* object, and with it the DownloadProgress record made by __init__        *)
(* (line 56), outlives the call.  The subprocess writes no output and      *)
(* nothing raises in these runs.                                           *)
(***************************************************************************)
MaxRuns == 2         \* calls of process_urls_file on one object (SpecRerun)

\* the previous call has returned and its renderer thread has ended: a new
\* call resolves its URLs to all_items; the locals of the previous call are gone
CallAgain ==
  /\ pc = "done"
  /\ rpc = "exited"
  /\ run < MaxRuns
  /\ run' = run + 1
  /\ all_items' \in SeqsUpTo(RunItems, MaxItems)
  /\ unique_items' = <<>>
  /\ idx' = 0
  /\ results' = <<>>
  /\ lines_printed' = 0
  /\ pc' = "dedupe"
  /\ UNCHANGED <<pipev, capturev, resolvev, procv, progress, lock, pending, stop_display,
                 rpc, proc, nread, percent, present>>

NextRerun ==
  \/ DedupeItems
  \/ InitProgress
  \/ StartDisplay
  \/ NextJob
  \/ LoopEnd
  \/ Summary
  \/ MakeFolders
  \/ ReturnTrue
  \/ ReturnFalse
  \/ AcquireLock
  \/ RunLocked
  \/ Spawn
  \/ ExitZero
  \/ ExitNonZero
  \/ RenderCheck
  \/ RenderAcquire
  \/ RenderPaint
  \/ CallAgain

SpecRerun == Init /\ [][NextRerun]_vars

(***************************************************************************)
(* Properties of the run (Spec).                                           *)
(***************************************************************************)
InReadLoop(p) == p \in {"read", "percent"}

\* C1: within one call of _run_spotdl_command, between the initial 0 and the
\* terminal update, current_track_progress never decreases (a line bearing an
\* error token, which reports the failure, left apart).
ProgressNeverRegresses ==
  [][(InReadLoop(pc) /\ InReadLoop(pc') /\ current_track_status' # StatusErrorSeen)
       => current_track_progress' >= current_track_progress]_vars

\* C2: from the moment total_items is set until the final summary,
\* completed_items <= total_items, under every interleaving with the renderer.
CompletedWithinTotal ==
  pc \notin {"dedupe", "init"} => completed_items <= total_items

\* the last job of a two-job run has been counted while the renderer repaints
CompletedWithinTotalWitness ==
  /\ total_items = 2
  /\ completed_items = 2
  /\ rpc = "paint"
  /\ pc = "loop"

\* C3: whatever the outcome of each job, the run attempts every job and ends
\* with completed_items = total_items.
RunAttemptsEveryJob ==
  pc = "done" => (completed_items = total_items /\ Len(results) = Len(unique_items))

RendererRunning == rpc \in {"check", "acquire", "paint"} /\ ~stop_display

\* C5: while the renderer thread runs, every step of the main path that reads
\* or writes a field of the progress record, and every repaint, is taken with
\* _progress_lock held by the thread that takes it.
EveryAccessUnderLock ==
  [][/\ (RendererRunning /\ (RunLocked \/ PercentRead \/ InitProgress)) => lock = "main"
     /\ RenderPaint => lock = "renderer"]_vars

\* display names of the jobs among the first n whose download failed, in order
RECURSIVE FailedNames(_)
FailedNames(n) ==
  IF n = 0 THEN <<>>
  ELSE IF results[n] THEN FailedNames(n - 1)
       ELSE Append(FailedNames(n - 1), DisplayName(unique_items[n]))

\* C7: failed_items holds the display name of each counted job whose download
\* failed, once, in the order of the failures, and of no job that succeeded;
\* so len(failed_items) <= completed_items.
FailedItemsAreTheFailures ==
  /\ completed_items <= Len(results)
  /\ failed_items = FailedNames(completed_items)
  /\ Len(failed_items) <= completed_items

\* a run in which the first job succeeded and the second failed
FailedItemsWitness ==
  /\ completed_items = 2
  /\ results = <<TRUE, FALSE>>
  /\ failed_items = <<DisplayName(unique_items[2])>>

\* C8: no subprocess is spawned for a job whose output is already present.
NoSpawnWhenPresent == ~(present /\ proc = "running")

(***************************************************************************)
(* Properties of the deduplication (SpecDedupe).                           *)
(***************************************************************************)
\* the uniqueness key of a job: (artist, album, track_id)
JobKey(item) == <<item[1], item[2], item[3]>>

FirstIndex(items, key) ==
  CHOOSE i \in DOMAIN items :
    JobKey(items[i]) = key /\ \A j \in 1..(i - 1) : JobKey(items[j]) # key

\* C9: deduplicating the deduplicated list changes nothing, and the kept items
\* stand in the order of their first occurrences in the input.
DedupeIdempotent ==
  pc = "init" =>
    /\ Dedupe(unique_items) = unique_items
    /\ \A i \in DOMAIN unique_items :
         /\ \E j \in DOMAIN all_items : JobKey(all_items[j]) = JobKey(unique_items[i])
         /\ unique_items[i] = all_items[FirstIndex(all_items, JobKey(unique_items[i]))]
    /\ \A i, j \in DOMAIN unique_items :
         i < j => FirstIndex(all_items, JobKey(unique_items[i]))
                    < FirstIndex(all_items, JobKey(unique_items[j]))

\* a list with a key repeated twice after its first occurrence
DedupeIdempotentWitness ==
  /\ pc = "init"
  /\ Len(all_items) = 3
  /\ Len(unique_items) = 1

\* the items of x that no earlier item of x shares the key of, in the order of x
RECURSIVE FirstOccurrences(_, _)
FirstOccurrences(x, n) ==
  IF n = 0 THEN <<>>
  ELSE IF \E j \in 1..(n - 1) : JobKey(x[j]) = JobKey(x[n])
       THEN FirstOccurrences(x, n - 1)
       ELSE Append(FirstOccurrences(x, n - 1), x[n])

\* C10: the job list is the subsequence of the first occurrences of each key:
\* no two jobs share a key, every key of the input appears, and the list is
\* strictly shorter than the input when the input repeats a key.
DedupeKeepsFirstOccurrences ==
  pc = "init" =>
    /\ unique_items = FirstOccurrences(all_items, Len(all_items))
    /\ \A i, j \in DOMAIN unique_items :
         JobKey(unique_items[i]) = JobKey(unique_items[j]) => i = j
    /\ {JobKey(unique_items[i]) : i \in DOMAIN unique_items}
         = {JobKey(all_items[i]) : i \in DOMAIN all_items}
    /\ (\E i, j \in DOMAIN all_items : i # j /\ JobKey(all_items[i]) = JobKey(all_items[j]))
         => Len(unique_items) < Len(all_items)

\* the same track resolved from an album URL and from a playlist URL
DedupeKeepsFirstOccurrencesWitness ==
  /\ pc = "init"
  /\ Len(all_items) = 3
  /\ Len(unique_items) = 2
  /\ \E i, j \in DOMAIN all_items :
       /\ i < j
       /\ JobKey(all_items[i]) = JobKey(all_items[j])
       /\ all_items[i][4] # all_items[j][4]

(***************************************************************************)
(* Properties of the pipes (SpecPipe).                                     *)
(***************************************************************************)
ChildBlockedOn(pipe) ==
  /\ proc = "running"
  /\ child_todo # <<>>
  /\ Head(child_todo) = pipe
  /\ (IF pipe = "stdout" THEN stdout_pipe ELSE stderr_pipe) = PipeCapacity

DriverBlockedOn(pipe) ==
  /\ proc = "running"
  /\ \/ pipe = "stdout" /\ pc = "read" /\ stdout_pipe = 0
     \/ pipe = "stderr" /\ pc = "stderr" /\ stderr_pipe = 0

\* C4: no state is reachable in which the subprocess is blocked writing to a
\* full pipe while the driver is blocked reading the other pipe.
NoPipeDeadlock ==
  /\ ~(ChildBlockedOn("stderr") /\ DriverBlockedOn("stdout"))
  /\ ~(ChildBlockedOn("stdout") /\ DriverBlockedOn("stderr"))

(***************************************************************************)
(* Properties of the failure reason (SpecReason).                          *)
(***************************************************************************)
Reported == pc = "return_false" /\ pending = <<>>

\* C6, as claimed: whenever some captured output line bears an error token,
\* the recorded reason is such a line, truncated.
ReasonIsAnErrorLine ==
  (Reported /\ \E i \in DOMAIN output_lines : HasErrorToken(output_lines[i]))
    => \E i \in DOMAIN output_lines :
         /\ HasErrorToken(output_lines[i])
         /\ current_track_status = FailMark \o Prefix(output_lines[i], ReasonLen)

\* positions of the last TailLines captured lines that bear an error token
TailErrors ==
  {i \in DOMAIN output_lines :
     i > Len(output_lines) - TailLines /\ HasErrorToken(output_lines[i])}

\* C6, amended: the reason is the stripped stderr text when stderr was not
\* empty, else the last of the final five output lines that bears an error
\* token, else the unknown-error text; each cut to sixty characters.
ReasonFromStderrThenTail ==
  Reported =>
    current_track_status = FailMark \o
      (IF stderr_output # "" THEN Prefix(Strip(stderr_output), ReasonLen)
       ELSE IF TailErrors # {}
            THEN Prefix(output_lines[CHOOSE i \in TailErrors : \A j \in TailErrors : j <= i],
                        ReasonLen)
            ELSE UnknownError)

\* an error line followed by five lines without a token, and nothing on stderr:
\* the unknown-error text is reported
ReasonFromStderrThenTailWitness ==
  /\ Reported
  /\ stderr_output = ""
  /\ Len(output_lines) = 6
  /\ HasErrorToken(output_lines[1])
  /\ TailErrors = {}
  /\ current_track_status = FailMark \o UnknownError

(***************************************************************************)
(* Properties of the driver and of the job loop (Spec).                    *)
(***************************************************************************)
\* C15: once a line bearing an 'error' or 'failed' token has set progress 0 and
\* the error status, no later step of the same call's read loop raises the
\* progress or replaces that status, and the call does not end in success.
ErrorLineIsTerminal ==
  [][(InReadLoop(pc) /\ current_track_status = StatusErrorSeen)
       => /\ current_track_status' = StatusErrorSeen
          /\ current_track_progress' = 0
          /\ pc' # "return_true"]_vars

\* _run_spotdl_command is about to return: its last update has been applied
AtReturn == pc \in {"return_true", "return_false"} /\ pending = <<>>

IsFailureStatus(status) ==
  Len(status) > Len(FailMark) /\ SubSeq(status, 1, Len(FailMark)) = FailMark

\* C16: the call returns success exactly when process.wait() gave status 0, and
\* failure on any other status or on an exception (no status obtained); at the
\* return, progress is 100 on success, and 0 with a failure status on failure.
ExitStatusDecides ==
  AtReturn =>
    /\ (pc = "return_true") <=> (return_code = 0)
    /\ pc = "return_true" => current_track_progress = ProgressDone
    /\ pc = "return_false" =>
         (current_track_progress = 0 /\ IsFailureStatus(current_track_status))

\* a call that read lines and whose subprocess was killed by a signal
ExitStatusDecidesWitness ==
  /\ AtReturn
  /\ pc = "return_false"
  /\ return_code < 0
  /\ nread > 0
  /\ current_track_progress = 0

\* subprocesses alive: the one of the current call, and those left behind
LiveSubprocesses == orphans + (IF proc = "running" THEN 1 ELSE 0)

\* C17: at most one subprocess exists at any time, and no call returns (so that
\* its job is counted and the next one started) while its subprocess runs.
OneSubprocessAtATime ==
  /\ LiveSubprocesses <= 1
  /\ AtReturn => proc # "running"

\* the final summary is being printed, or has been
SummaryBegun == pc = "done" /\ Len(results) = Len(unique_items)

\* C18: no repaint is made once process_urls_file has begun the final summary.
NoRepaintAfterSummary ==
  [][RenderPaint => ~SummaryBegun]_vars

\* the block at the head of pending is the update of the percent branch
\* (line 328): the only update giving a progress and no status
PercentUpdateNext ==
  /\ pending # <<>>
  /\ Head(pending).op = "update"
  /\ Head(pending).progress # NoProgress
  /\ Head(pending).status = None

\* C19: the update made for a line reporting NN% sets a progress within
\* [30, 95] that is not lower than the progress displayed before it.
PercentNeverLowers ==
  [][(RunLocked /\ PercentUpdateNext)
       => /\ current_track_progress' >= current_track_progress
          /\ current_track_progress' >= PercentBase
          /\ current_track_progress' <= PercentCap]_vars

\* C20: current_track_progress lies in [0, 100] in every reachable state.
ProgressWithinRange ==
  /\ current_track_progress >= 0
  /\ current_track_progress <= 10000

\* the first line read reported 150%: the progress displayed is the cap, 95
ProgressWithinRangeWitness ==
  /\ pc = "read"
  /\ nread = 1
  /\ pending = <<>>
  /\ current_track_progress = 9500
  /\ current_track_status = StatusStart

(***************************************************************************)
(* Properties of the resolver (SpecResolve).                               *)
(***************************************************************************)
\* position of the first occurrence of sub in s, 0 when there is none
IndexOf(s, sub) ==
  LET at == {i \in 1..(Len(s) - Len(sub) + 1) : SubSeq(s, i, i + Len(sub) - 1) = sub}
  IN  IF at = {} THEN 0 ELSE CHOOSE i \in at : \A j \in at : i <= j

Before(s, sub) == IF IndexOf(s, sub) = 0 THEN s ELSE SubSeq(s, 1, IndexOf(s, sub) - 1)
After(s, sub) ==
  IF IndexOf(s, sub) = 0 THEN "" ELSE SubSeq(s, IndexOf(s, sub) + Len(sub), Len(s))

\* a URL read as scheme://<host>/<kind>/<id>[?...]
UrlParts(u) ==
  LET rest == IF IndexOf(u, "://") = 0 THEN u ELSE After(u, "://")
      path == After(rest, "/")
  IN  [host |-> Before(rest, "/"), kind |-> Before(path, "/"),
       id |-> Before(After(path, "/"), "?")]

CatalogDomain == "spotify.com"

OnCatalogDomain(host) ==
  \/ host = CatalogDomain
  \/ /\ Len(host) > Len(CatalogDomain) + 1
     /\ SubSeq(host, Len(host) - Len(CatalogDomain), Len(host)) = "." \o CatalogDomain

\* not on the catalog domain, or not <host>/<kind>/<id>, or of another kind
IsBadUrl(u) ==
  LET parts == UrlParts(u)
  IN  \/ ~OnCatalogDomain(parts.host)
      \/ parts.kind = ""
      \/ parts.id = ""
      \/ parts.kind \notin {"album", "playlist"}

BadOf == [u \in Urls |-> IsBadUrl(u)]

\* C11: a bad URL resolves to no job and leads to no remote lookup, and every
\* URL of the input is handed to the resolver.
BadUrlResolvesToNothing ==
  /\ \A i \in DOMAIN returned :
       BadOf[urls[i]] => (returned[i].url_items = <<>> /\ returned[i].calls = <<>>)
  /\ pc = "dedupe" => Len(returned) = Len(urls)

\* the last lookup made for the URL failed
LookupFailed(r) == r.calls # <<>> /\ ~r.calls[Len(r.calls)].ok

RECURSIVE Flatten(_)
Flatten(rs) == IF rs = <<>> THEN <<>> ELSE Head(rs).url_items \o Flatten(Tail(rs))

\* the elements of the first n of seq whose position is in kept, in order
RECURSIVE Pick(_, _, _)
Pick(seq, kept, n) ==
  IF n = 0 THEN <<>>
  ELSE Pick(seq, kept, n - 1) \o (IF n \in kept THEN <<seq[n]>> ELSE <<>>)

\* one job per album track that has an id, in listing order, tagged 'track'
ExpectedAlbum ==
  [id \in DOMAIN AlbumCatalog |->
     LET album == AlbumCatalog[id]
         jobs == [k \in DOMAIN album.tracks |->
                    <<Sanitize(album.artist), Sanitize(album.name), album.tracks[k], "track">>]
     IN  Pick(jobs, {k \in DOMAIN album.tracks : album.tracks[k] # None},
              Len(album.tracks))]

\* one job per entry whose track is not null, has an id and an artist
ExpectedPlaylist ==
  [id \in DOMAIN PlaylistCatalog |->
     LET tracks == PlaylistCatalog[id].tracks
         kept == {k \in DOMAIN tracks :
                    tracks[k].present /\ tracks[k].id # None /\ tracks[k].artists # <<>>}
         jobs == [k \in DOMAIN tracks |->
                    IF k \in kept
                    THEN <<Sanitize(tracks[k].artists[1]), Sanitize(tracks[k].album),
                           tracks[k].id, "playlist">>
                    ELSE <<>>]
     IN  Pick(jobs, kept, Len(tracks))]

ExpectedJobs(u) ==
  IF InfoOf[u].url_type = "album" THEN ExpectedAlbum[InfoOf[u].item_id]
  ELSE ExpectedPlaylist[InfoOf[u].item_id]

ResolverPositions ==
  {"resolve", "album_meta", "album_page", "playlist_meta", "playlist_page", "dedupe"}

\* C12: a URL for which a lookup failed contributes nothing, the other URLs
\* contribute all of their jobs, and the run goes on to the last URL.
LookupFailureYieldsNothing ==
  /\ \A i \in DOMAIN returned :
       LookupFailed(returned[i]) => returned[i].url_items = <<>>
  /\ \A i \in DOMAIN returned :
       (InfoOf[urls[i]].ok /\ ~LookupFailed(returned[i]))
         => returned[i].url_items = ExpectedJobs(urls[i])
  /\ all_items = Flatten(returned)
  /\ pc \in ResolverPositions
  /\ pc = "dedupe" => Len(returned) = Len(urls)

\* the third page of an album failed after two pages were fetched, and the
\* other URL of the file gave its jobs
LookupFailureYieldsNothingWitness ==
  /\ pc = "dedupe"
  /\ Len(returned) = 2
  /\ \E i, j \in DOMAIN returned :
       /\ i # j
       /\ LookupFailed(returned[i])
       /\ Len(returned[i].calls) = 4
       /\ returned[i].calls[3].ok
       /\ returned[j].url_items # <<>>
       /\ all_items = returned[j].url_items

\* the URL at position i named an album and every lookup for it succeeded
AlbumResolved(i) ==
  /\ InfoOf[urls[i]].ok
  /\ InfoOf[urls[i]].url_type = "album"
  /\ ~LookupFailed(returned[i])

\* the lookups of an album of T tracks: the metadata once, then the pages at
\* offsets 0, 50, 100, ... below T
AlbumCallsInOrder(r, id, T) ==
  LET n == (T + 49) \div 50
  IN  /\ Len(r.calls) = 1 + n
      /\ r.calls[1] = Call("album", id, 0, TRUE)
      /\ \A k \in 1..n : r.calls[k + 1] = Call("album_tracks", id, 50 * (k - 1), TRUE)

\* C13, as claimed: ... and one job is emitted per track, in listing order,
\* with kind 'album'.
AlbumJobsTaggedAlbum ==
  \A i \in DOMAIN returned :
    AlbumResolved(i) =>
      LET id == InfoOf[urls[i]].item_id
          album == AlbumCatalog[id]
      IN  /\ AlbumCallsInOrder(returned[i], id, Len(album.tracks))
          /\ returned[i].url_items =
               [k \in 1..Len(album.tracks) |->
                  <<Sanitize(album.artist), Sanitize(album.name), album.tracks[k], "album">>]

\* C13, amended: the metadata is looked up once, the pages are requested at
\* offsets 0, 50, ... below T (ceil(T/50) requests), and one job is emitted per
\* track that has an id, in listing order, with kind 'track'.
AlbumPagination ==
  \A i \in DOMAIN returned :
    AlbumResolved(i) =>
      LET id == InfoOf[urls[i]].item_id
      IN  /\ AlbumCallsInOrder(returned[i], id, Len(AlbumCatalog[id].tracks))
          /\ returned[i].url_items = ExpectedAlbum[id]

\* an album of 101 tracks resolved with three page requests
AlbumPaginationWitness ==
  \E i \in DOMAIN returned :
    /\ AlbumResolved(i)
    /\ Len(returned[i].calls) = 4
    /\ returned[i].calls[4].offset = 100
    /\ Len(returned[i].url_items) = 101
    /\ returned[i].url_items[101][4] = "track"

PlaylistResolved(i) ==
  /\ InfoOf[urls[i]].ok
  /\ InfoOf[urls[i]].url_type = "playlist"
  /\ ~LookupFailed(returned[i])

\* the scenario: an album of 3 tracks, then a playlist of 2 entries one of
\* which is null, both resolved
ScenarioResolved ==
  /\ pc = "dedupe"
  /\ urls = <<"https://open.spotify.com/album/A1", "https://open.spotify.com/playlist/P1">>
  /\ \A i \in DOMAIN returned : ~LookupFailed(returned[i])

\* C14, as claimed: the jobs of a playlist are its entries whose track is not
\* null and has an id, one job each, and no other entry is dropped.
PlaylistKeepsEntriesWithId ==
  /\ \A i \in DOMAIN returned :
       PlaylistResolved(i) =>
         LET tracks == PlaylistCatalog[InfoOf[urls[i]].item_id].tracks
             kept == {k \in DOMAIN tracks : tracks[k].present /\ tracks[k].id # None}
         IN  /\ Len(returned[i].url_items) = Cardinality(kept)
             /\ \A k \in kept : \E n \in DOMAIN returned[i].url_items :
                  returned[i].url_items[n][3] = tracks[k].id
  /\ ScenarioResolved => Len(all_items) = 4

\* C14, amended: the jobs of a playlist are its entries whose track is not
\* null, has an id and has an artist, one job each in listing order, with kind
\* 'playlist'; the scenario resolves to 4 jobs.
PlaylistKeepsUsableEntries ==
  /\ \A i \in DOMAIN returned :
       PlaylistResolved(i) =>
         returned[i].url_items = ExpectedPlaylist[InfoOf[urls[i]].item_id]
  /\ ScenarioResolved => Len(all_items) = 4

\* the scenario has been resolved: 3 jobs of the album, 1 of the playlist
PlaylistKeepsUsableEntriesWitness ==
  /\ ScenarioResolved
  /\ Len(returned[1].url_items) = 3
  /\ Len(returned[2].url_items) = 1
  /\ returned[2].url_items[1][4] = "playlist"
  /\ Len(all_items) = 4

(***************************************************************************)
(* Properties of the progress record across and within runs.               *)
(***************************************************************************)
\* the job loop of a run is about to take its first job, or to end at once
JobLoopStarts == pc = "loop" /\ idx = 0 /\ pending = <<>>

\* C21: each run's job loop starts with completed_items = 0, an empty
\* failed_items and no current track, and the success count of the summary,
\* completed_items - len(failed_items), is never negative.
RecordFreshEachRun ==
  /\ JobLoopStarts =>
       (completed_items = 0 /\ failed_items = <<>> /\ current_track = "")
  /\ pc \in {"summary", "done"} => completed_items - Len(failed_items) >= 0

\* the update at the head of pending, about to be applied under the lock
UpdateNext == pending # <<>> /\ Head(pending).op = "update"

\* C22: completed_items never decreases and is the number of jobs processed;
\* it and failed_items change only in the counting block of download_item,
\* by exactly 1 and by at most one name; total_items changes only where the
\* run sets it; the renderer changes no field; and an update changes exactly
\* the fields of current_track, current_track_progress, current_track_status
\* it was given a value for.
CountersChangedOnlyByRunner ==
  [][/\ completed_items' \in {completed_items, completed_items + 1}
     /\ (completed_items' # completed_items \/ failed_items' # failed_items)
          => /\ RunLocked
             /\ Head(pending).op = "count"
             /\ completed_items' = completed_items + 1
             /\ failed_items' \in {failed_items,
                                   Append(failed_items, DisplayName(unique_items[idx]))}
     /\ total_items' # total_items => pc = "init"
     /\ (pc' = "loop" /\ pending' = <<>>) => completed_items' = idx'
     /\ (RenderCheck \/ RenderAcquire \/ RenderPaint) => UNCHANGED progress
     /\ (RunLocked /\ UpdateNext)
          => /\ UNCHANGED <<total_items, completed_items, failed_items>>
             /\ current_track' = IF Head(pending).track_name = None THEN current_track
                                 ELSE Head(pending).track_name
             /\ current_track_progress' =
                  IF Head(pending).progress = NoProgress THEN current_track_progress
                  ELSE Head(pending).progress
             /\ current_track_status' = IF Head(pending).status = None
                                        THEN current_track_status
                                        ELSE Head(pending).status]_vars

\* the second job of a run is being read: the first was counted, and an update
\* giving a progress alone (12.5% read) has left track and status as they were
CountersChangedOnlyByRunnerWitness ==
  /\ pc = "read"
  /\ idx = 2
  /\ completed_items = 1
  /\ nread = 1
  /\ pending = <<>>
  /\ current_track_progress = 3750
  /\ current_track_status = StatusStart
  /\ current_track = DisplayName(unique_items[2])

====
